---- MODULE Spec2Model ----
(***************************************************************************)
(* Model of gm/io.go: WriteMshD (export of a list of NURBS to a .msh       *)
(* document) and ReadMsh (import of a .msh document).                      *)
(*                                                                         *)
(* Numbers.  A float64 is modelled as an integer count of 1/Unit (1/16):   *)
(* every value of the model and every product and sum HashPoint forms is   *)
(* exactly representable in a float64, so float arithmetic is exact here.  *)
(* Text.  "%24.17e" output is modelled as a decimal numeral [mant, exp]    *)
(* (value mant * 10^exp, mant without trailing zeros); json.Unmarshal      *)
(* converts the numeral back to a float64.                                 *)
(***************************************************************************)
EXTENDS Integers, Sequences, FiniteSets, TLC

VARIABLES nurbss, vtagged, ctagged, fs, pc, wrote, result

vars == <<nurbss, vtagged, ctagged, fs, pc, wrote, result>>

(***************************************************************************)
(* Bounds and fixed data                                                   *)
(***************************************************************************)
MaxShapes == 2

Unit == 2 * 2 * 2 * 2

NURBS_GEO == 18

fnk == "mesh"

(***************************************************************************)
(* Generic helpers                                                         *)
(***************************************************************************)
RECURSIVE Flatten(_)
Flatten(ss) == IF ss = <<>> THEN <<>> ELSE Head(ss) \o Flatten(Tail(ss))

RECURSIVE SumSeq(_)
SumSeq(s) == IF s = <<>> THEN 0 ELSE Head(s) + SumSeq(Tail(s))

RECURSIVE Pow10(_)
Pow10(e) == IF e = 0 THEN 1 ELSE 10 * Pow10(e - 1)

RECURSIVE NumDigits(_)
NumDigits(m) == IF m < 10 THEN 1 ELSE 1 + NumDigits(m \div 10)

Abs(a) == IF a < 0 THEN -a ELSE a

\* Go's float64 -> int conversion discards the fraction (rounds toward zero)
TruncDiv(a, b) == IF a >= 0 THEN a \div b ELSE -((-a) \div b)

\* round-half-up division of a non-negative numerator
RoundDiv(a, b) == (2 * a + b) \div (2 * b)

(***************************************************************************)
(* HashPoint                                                               *)
(***************************************************************************)
HashPoint(x, y, z) == TruncDiv(x * 10001 + y * 1000001 + z * 100000001, Unit)

Key(pt) == HashPoint(pt[1], pt[2], pt[3])

(***************************************************************************)
(* Number formatting / parsing                                             *)
(***************************************************************************)
SigDigits == 18

RECURSIVE StripZeros(_)
StripZeros(d) ==
    IF d.mant = 0 THEN [neg |-> d.neg, mant |-> 0, exp |-> 0]
    ELSE IF d.mant % 10 = 0
         THEN StripZeros([neg |-> d.neg, mant |-> d.mant \div 10, exp |-> d.exp + 1])
         ELSE d

\* keep the first sig significant decimal digits of a numeral
RoundSig(d, sig) ==
    LET nd == NumDigits(d.mant) IN
    IF nd <= sig THEN d
    ELSE StripZeros([neg |-> d.neg,
                     mant |-> RoundDiv(d.mant, Pow10(nd - sig)),
                     exp |-> d.exp + (nd - sig)])

\* v/16 = v*625/10^4 exactly
Fmt17e(v) ==
    RoundSig(StripZeros([neg |-> v < 0, mant |-> Abs(v) * 625, exp |-> -4]), SigDigits)

\* decimal numeral -> float64 (in units of 1/Unit)
ParseFloat(d) ==
    LET a == IF d.exp >= 0 THEN d.mant * Pow10(d.exp) * Unit
             ELSE RoundDiv(d.mant * Unit, Pow10(-d.exp))
    IN IF d.neg THEN -a ELSE a

\* utl.Sf("%d_%d", sid, eid)
CellKey(sid, eid) == ToString(sid) \o "_" \o ToString(eid)

(***************************************************************************)
(* The Nurbs object (collaborator of io.go): orders p, control counts n,   *)
(* knot vectors b[d].T and the lattice of control points Q                 *)
(***************************************************************************)
RECURSIVE SortedSeq(_)
SortedSeq(S) ==
    IF S = {} THEN <<>>
    ELSE LET m == CHOOSE a \in S : \A b \in S : a <= b
         IN <<m>> \o SortedSeq(S \ {m})

Lattice(n) == (0 .. n[1] - 1) \X (0 .. n[2] - 1) \X (0 .. n[3] - 1)

\* flat position of the lattice index (i,j,k): axis 0 fastest
FlatIndex(n, i, j, k) == i + n[1] * (j + n[2] * k)

NurbsInit(gnd, p, T) ==
    [gnd |-> gnd,
     p   |-> [d \in 1 .. 3 |-> IF d <= gnd THEN p[d] ELSE 0],
     n   |-> [d \in 1 .. 3 |-> IF d <= gnd THEN Len(T[d]) - p[d] - 1 ELSE 1],
     T   |-> [d \in 1 .. gnd |-> T[d]],
     Q   |-> [ijk \in {} |-> <<>>]]

SetControlOk(o, verts, ctrls) ==
    /\ Len(ctrls) = o.n[1] * o.n[2] * o.n[3]
    /\ \A t \in 1 .. Len(ctrls) : ctrls[t] \in 0 .. Len(verts) - 1

SetControl(o, verts, ctrls) ==
    [o EXCEPT !.Q = [ijk \in Lattice(o.n) |->
                        verts[ctrls[FlatIndex(o.n, ijk[1], ijk[2], ijk[3]) + 1] + 1]]]

GetQ(o, i, j, k) == o.Q[<<i, j, k>>]

GetQl(o, l) == GetQ(o, l % o.n[1], (l \div o.n[1]) % o.n[2], l \div (o.n[1] * o.n[2]))

\* non-empty knot spans of axis d, as 0-based knot indices; <<0>> off-axis
Spans(o, d) ==
    IF d > o.gnd THEN <<0>>
    ELSE SortedSeq({s \in 0 .. Len(o.T[d]) - 2 : o.T[d][s + 1] < o.T[d][s + 2]})

SpanTuple(o, s) ==
    Flatten([d \in 1 .. o.gnd |-> <<s[d], s[d] + 1>>])

\* per element, the span indices along the three axes (axis 0 fastest)
ElemSpans(o) ==
    LET s1 == Spans(o, 1)  s2 == Spans(o, 2)  s3 == Spans(o, 3) IN
    Flatten([kk \in 1 .. Len(s3) |->
        Flatten([jj \in 1 .. Len(s2) |->
            [ii \in 1 .. Len(s1) |-> <<s1[ii], s2[jj], s3[kk]>>]])])

Elements(o) ==
    LET es == ElemSpans(o) IN [e \in 1 .. Len(es) |-> SpanTuple(o, es[e])]

\* per element, the flat lattice indices of its local nodes
Enodes(o) ==
    LET es == ElemSpans(o) IN
    [e \in 1 .. Len(es) |->
        LET s == es[e]
            lo(d) == IF d <= o.gnd THEN s[d] - o.p[d] ELSE 0
            cnt(d) == IF d <= o.gnd THEN o.p[d] + 1 ELSE 1
        IN Flatten([kk \in 1 .. cnt(3) |->
               Flatten([jj \in 1 .. cnt(2) |->
                   [ii \in 1 .. cnt(1) |->
                       FlatIndex(o.n, lo(1) + ii - 1, lo(2) + jj - 1, lo(3) + kk - 1)]])])]

(***************************************************************************)
(* Go maps                                                                 *)
(***************************************************************************)
EmptyMap == [k \in {} |-> 0]

MapPut(m, k, v) == [a \in DOMAIN m \cup {k} |-> IF a = k THEN v ELSE m[a]]

\* m[k] without the ok flag: the zero value when the key is absent
MapGet(m, k) == IF k \in DOMAIN m THEN m[k] ELSE 0

(***************************************************************************)
(* WriteMshD, first pass: the "verts" list                                 *)
(***************************************************************************)
\* the lattice indices in the order the three nested loops visit them
Traversal(o) ==
    Flatten([k \in 1 .. o.n[3] |->
        Flatten([j \in 1 .. o.n[2] |->
            [i \in 1 .. o.n[1] |-> <<i - 1, j - 1, k - 1>>]])])

\* every control point x := o.GetQ(i, j, k), for _, o := range nurbss
ControlPoints(ns) ==
    Flatten([s \in 1 .. Len(ns) |->
        LET tr == Traversal(ns[s]) IN
        [t \in 1 .. Len(tr) |-> GetQ(ns[s], tr[t][1], tr[t][2], tr[t][3])]])

VertTag_untagged(hsh, vt) ==
    IF (~vt.nil) /\ hsh \in DOMAIN vt.m THEN vt.m[hsh] ELSE -1

VertTag(hsh, vt) ==
    IF (~vt.nil) /\ hsh \in DOMAIN vt.m THEN vt.m[hsh] ELSE 0

VertEntry(vid, tag, x) ==
    [id |-> vid, tag |-> tag,
     c |-> <<Fmt17e(x[1]), Fmt17e(x[2]), Fmt17e(x[3]), Fmt17e(x[4])>>]

\* body of the innermost loop, without the increment of vid
VertsVisit_noincrement(st, x, vt) ==
    LET hsh == HashPoint(x[1], x[2], x[3]) IN
    IF hsh \in DOMAIN st.verts THEN st
    ELSE [verts |-> MapPut(st.verts, hsh, st.vid),
          vid   |-> st.vid,
          out   |-> Append(st.out, VertEntry(st.vid, VertTag(hsh, vt), x))]

\* body of the innermost loop, rewriting the entry of a known key
VertsVisit_lastwins(st, x, vt) ==
    LET hsh == HashPoint(x[1], x[2], x[3]) IN
    IF hsh \in DOMAIN st.verts
    THEN [st EXCEPT !.out[st.verts[hsh] + 1] =
                        VertEntry(st.verts[hsh], VertTag(hsh, vt), x)]
    ELSE [verts |-> MapPut(st.verts, hsh, st.vid),
          vid   |-> st.vid + 1,
          out   |-> Append(st.out, VertEntry(st.vid, VertTag(hsh, vt), x))]

\* body of the innermost loop
VertsVisit(st, x, vt) ==
    LET hsh == HashPoint(x[1], x[2], x[3]) IN
    IF hsh \in DOMAIN st.verts THEN st
    ELSE [verts |-> MapPut(st.verts, hsh, st.vid),
          vid   |-> st.vid + 1,
          out   |-> Append(st.out, VertEntry(st.vid, VertTag(hsh, vt), x))]

RECURSIVE VertsFold(_, _, _)
VertsFold(st, xs, vt) ==
    IF xs = <<>> THEN st
    ELSE VertsFold(VertsVisit(st, Head(xs), vt), Tail(xs), vt)

VertsPass(ns, vt) ==
    VertsFold([verts |-> EmptyMap, vid |-> 0, out |-> <<>>], ControlPoints(ns), vt)

(***************************************************************************)
(* WriteMshD, second pass: the "nurbss" list                               *)
(***************************************************************************)
CtrlId_default(verts, x) == 0

CtrlsTraversal_axis2fastest(o) ==
    Flatten([i \in 1 .. o.n[1] |->
        Flatten([j \in 1 .. o.n[2] |->
            [k \in 1 .. o.n[3] |-> <<i - 1, j - 1, k - 1>>]])])

\* the lattice indices in the order the loops of the second pass visit them
CtrlsTraversal(o) ==
    Flatten([k \in 1 .. o.n[3] |->
        Flatten([j \in 1 .. o.n[2] |->
            [i \in 1 .. o.n[1] |-> <<i - 1, j - 1, k - 1>>]])])

CtrlId(verts, x) == MapGet(verts, HashPoint(x[1], x[2], x[3]))

NurbsEntry(sid, o, verts) ==
    LET tr == CtrlsTraversal(o) IN
    [id    |-> sid,
     gnd   |-> o.gnd,
     ords  |-> <<o.p[1], o.p[2], o.p[3]>>,
     knots |-> [d \in 1 .. o.gnd |-> [t \in 1 .. Len(o.T[d]) |-> Fmt17e(o.T[d][t])]],
     ctrls |-> [t \in 1 .. Len(tr) |->
                  CtrlId(verts, GetQ(o, tr[t][1], tr[t][2], tr[t][3]))]]

NurbssPass(ns, verts) == [s \in 1 .. Len(ns) |-> NurbsEntry(s - 1, ns[s], verts)]

(***************************************************************************)
(* WriteMshD, third pass: the "cells" list                                 *)
(***************************************************************************)
CellTag(sid, eid, ct) ==
    IF (~ct.nil) /\ CellKey(sid, eid) \in DOMAIN ct.m THEN ct.m[CellKey(sid, eid)] ELSE -1

CellEntry(cid, sid, eid, o, verts, ct) ==
    LET e == Elements(o)[eid + 1]
        nodes == Enodes(o)[eid + 1]
    IN
    [id   |-> cid,
     tag  |-> CellTag(sid, eid, ct),
     nrb  |-> sid,
     part |-> 0,
     geo  |-> NURBS_GEO,
     span |-> e,
     verts |-> [i \in 1 .. Len(nodes) |-> CtrlId(verts, GetQl(o, nodes[i]))]]

\* cells of the shape sid, numbered per shape
CellsOfShape_reset(cid, sid, o, verts, ct) ==
    [e \in 1 .. Len(Elements(o)) |-> CellEntry(e - 1, sid, e - 1, o, verts, ct)]

\* cells of the shape sid, the counter being cid on entry
CellsOfShape(cid, sid, o, verts, ct) ==
    [e \in 1 .. Len(Elements(o)) |-> CellEntry(cid + e - 1, sid, e - 1, o, verts, ct)]

RECURSIVE CellsFrom(_, _, _, _, _)
CellsFrom(cid, sid, ns, verts, ct) ==
    IF sid >= Len(ns) THEN <<>>
    ELSE LET cs == CellsOfShape(cid, sid, ns[sid + 1], verts, ct)
         IN cs \o CellsFrom(cid + Len(cs), sid + 1, ns, verts, ct)

CellsPass(ns, verts, ct) == CellsFrom(0, 0, ns, verts, ct)

\* the document WriteMshD leaves in the file fnk.msh
WriteDoc(ns, vt, ct) ==
    LET st == VertsPass(ns, vt) IN
    [verts  |-> st.out,
     nurbss |-> NurbssPass(ns, st.verts),
     cells  |-> CellsPass(ns, st.verts, ct)]

(***************************************************************************)
(* ReadMsh                                                                 *)
(***************************************************************************)
\* json.Unmarshal(buf, &dat): a field the document lacks keeps its zero value
Unmarshal(doc) ==
    [Verts  |-> IF "verts" \in DOMAIN doc THEN doc.verts ELSE <<>>,
     Nurbss |-> IF "nurbss" \in DOMAIN doc THEN doc.nurbss ELSE <<>>]

Panic(msg, fn) == [panic |-> msg, fn |-> fn, nurbss |-> <<>>]

\* the table is filled by position in the list; Vert.Id is not consulted
VertsTable(Verts) ==
    [i \in 1 .. Len(Verts) |-> [j \in 1 .. 4 |-> ParseFloat(Verts[i].c[j])]]

ReadNurbs(v, verts) ==
    SetControl(NurbsInit(v.gnd, v.ords, [d \in 1 .. Len(v.knots) |->
                   [t \in 1 .. Len(v.knots[d]) |-> ParseFloat(v.knots[d][t])]]),
               verts, v.ctrls)

ReadNurbsOk(v, verts) ==
    SetControlOk(NurbsInit(v.gnd, v.ords, [d \in 1 .. Len(v.knots) |->
                   [t \in 1 .. Len(v.knots[d]) |-> ParseFloat(v.knots[d][t])]]),
                 verts, v.ctrls)

ReadMsh(file) ==
    LET fn == fnk \o ".msh" IN
    IF file.kind = "absent" THEN Panic("_io_err1", fn)
    ELSE IF file.kind # "json" THEN Panic("_io_err2", fn)
    ELSE LET dat == Unmarshal(file.doc) IN
         IF \E i \in 1 .. Len(dat.Verts) : Len(dat.Verts[i].c) < 4
         THEN Panic("index out of range", "")
         ELSE LET verts == VertsTable(dat.Verts) IN
              IF \E i \in 1 .. Len(dat.Nurbss) : ~ReadNurbsOk(dat.Nurbss[i], verts)
              THEN Panic("SetControl", "")
              ELSE [panic |-> "none", fn |-> "",
                    nurbss |-> [i \in 1 .. Len(dat.Nurbss) |->
                                   ReadNurbs(dat.Nurbss[i], verts)]]

(***************************************************************************)
(* Inputs                                                                  *)
(***************************************************************************)
\* control points <<x, y, z, weight>>, in units of 1/Unit
Pool ==
    << <<0, 0, 0, 16>>,         \* origin
       <<16, 0, 0, 16>>,        \* (1, 0, 0)
       <<10000, 0, 0, 16>>,     \* (625, 0, 0)
       <<0, 16, 0, 16>>,        \* (0, 1, 0)
       <<0, 0, 0, 8>>,          \* origin again, weight 1/2
       <<1, 0, 1, 16>> >>       \* (1/16, 0, 1/16): same key as (625, 0, 0)

Knots2 == <<0, 0, 16, 16>>

Knots3 == <<0, 0, 8, 16, 16>>

KnotsQ == <<0, 0, 0, 16, 16, 16>>

ShapeTypes ==
    { [gnd |-> 1, p |-> <<2>>, T |-> <<KnotsQ>>],
      [gnd |-> 2, p |-> <<1, 1>>, T |-> <<Knots3, Knots2>>],
      [gnd |-> 3, p |-> <<1, 1, 1>>, T |-> <<Knots2, Knots3, Knots2>>] }

\* a shape of type ty whose lattice is a window of the pool starting at start
MakeNurbs(ty, start) ==
    LET o == NurbsInit(ty.gnd, ty.p, ty.T) IN
    SetControl(o, Pool,
               [f \in 1 .. o.n[1] * o.n[2] * o.n[3] |-> (start + f - 1) % Len(Pool)])

\* window starts: each of the two same-key pairs of the pool occurs in both orders
Starts == {0, 3, 4}

Shapes == {MakeNurbs(ty, start) : ty \in ShapeTypes, start \in Starts}

ShapeLists == UNION {[1 .. len -> Shapes] : len \in 0 .. MaxShapes}

NilMap == [nil |-> TRUE, m |-> EmptyMap]

VTagTables ==
    { NilMap,
      [nil |-> FALSE, m |-> EmptyMap],
      [nil |-> FALSE, m |-> (Key(Pool[1]) :> 7) @@ (Key(Pool[3]) :> 9)] }

CTagTables ==
    { NilMap,
      [nil |-> FALSE, m |-> ("0_0" :> 5) @@ ("0_1" :> 6)] }

NoFile == [kind |-> "absent", doc |-> [none |-> TRUE]]

Garbage == [kind |-> "garbage", doc |-> [none |-> TRUE]]

\* documents of other origin: two vertices with arbitrary ids and one curve
ForeignVerts(ids) ==
    [i \in 1 .. 2 |-> [id |-> ids[i], tag |-> 0,
                       c |-> [j \in 1 .. 4 |-> Fmt17e(Pool[i][j])]]]

ForeignNurbs(ctrls) ==
    [id |-> 0, gnd |-> 1, ords |-> <<1, 0, 0>>,
     knots |-> << [t \in 1 .. 4 |-> Fmt17e(Knots2[t])] >>,
     ctrls |-> ctrls]

ForeignDocs ==
    {[verts |-> ForeignVerts(ids), nurbss |-> <<ForeignNurbs(<<0, 1>>)>>, cells |-> <<>>]
        : ids \in [1 .. 2 -> 0 .. 2]}
    \cup {[verts |-> ForeignVerts(ids), cells |-> <<>>] : ids \in {<<0, 1>>, <<1, 0>>}}
    \cup {[verts |-> ForeignVerts(<<0, 1>>)],
          [nurbss |-> <<ForeignNurbs(<<0, 1>>)>>],
          [verts |-> ForeignVerts(<<0, 1>>), nurbss |-> <<ForeignNurbs(<<0, 2>>)>>],
          [verts |-> <<[id |-> 0, tag |-> 0, c |-> <<>>]>>, nurbss |-> <<>>]}

ForeignFiles == {Garbage} \cup {[kind |-> "json", doc |-> d] : d \in ForeignDocs}

NoResult == [panic |-> "not called", fn |-> "", nurbss |-> <<>>]

(***************************************************************************)
(* State machine                                                           *)
(***************************************************************************)
Init ==
    /\ pc = "start"
    /\ wrote = FALSE
    /\ result = NoResult
    /\ \/ /\ fs = NoFile
          /\ nurbss \in ShapeLists
          /\ vtagged \in VTagTables
          /\ ctagged \in CTagTables
       \/ /\ fs \in ForeignFiles
          /\ nurbss = <<>>
          /\ vtagged = NilMap
          /\ ctagged = NilMap

WriteMshD ==
    /\ pc = "start"
    /\ fs' = [kind |-> "json", doc |-> WriteDoc(nurbss, vtagged, ctagged)]
    /\ wrote' = TRUE
    /\ pc' = "written"
    /\ UNCHANGED <<nurbss, vtagged, ctagged, result>>

ReadMshCall ==
    /\ pc \in {"start", "written"}
    /\ result' = ReadMsh(fs)
    /\ pc' = "done"
    /\ UNCHANGED <<nurbss, vtagged, ctagged, fs, wrote>>

Next == WriteMshD \/ ReadMshCall

Spec == Init /\ [][Next]_vars

(***************************************************************************)
(* Vocabulary of the properties                                            *)
(***************************************************************************)
Doc == fs.doc

\* a control point site: shape index (1-based) and lattice index
Sites == UNION {{<<s, ijk>> : ijk \in Lattice(nurbss[s].n)} : s \in 1 .. Len(nurbss)}

PointAt(site) == nurbss[site[1]].Q[site[2]]

\* the entry of the shape's control-id list at position i + n0*(j + n1*k)
CtrlAt(site) ==
    Doc.nurbss[site[1]].ctrls[
        FlatIndex(nurbss[site[1]].n, site[2][1], site[2][2], site[2][3]) + 1]

\* the key of an emitted vertex, from the coordinates written for it
VertKey(v) == HashPoint(ParseFloat(v.c[1]), ParseFloat(v.c[2]), ParseFloat(v.c[3]))

VertIds == {Doc.verts[i].id : i \in 1 .. Len(Doc.verts)}

\* index in Doc.cells of the element eid (0-based) of the shape s (1-based)
CellIndex(s, eid) ==
    SumSeq([t \in 1 .. s - 1 |-> Len(Elements(nurbss[t]))]) + eid + 1

CellSites ==
    UNION {{<<s, eid>> : eid \in 0 .. Len(Elements(nurbss[s])) - 1} : s \in 1 .. Len(nurbss)}

\* all control points and all control ids, shape after shape, in flat order
FlatPoints ==
    Flatten([s \in 1 .. Len(nurbss) |->
        [f \in 1 .. nurbss[s].n[1] * nurbss[s].n[2] * nurbss[s].n[3] |->
            LET l == f - 1  n == nurbss[s].n
            IN nurbss[s].Q[<<l % n[1], (l \div n[1]) % n[2], l \div (n[1] * n[2])>>]]])

FlatCtrls == Flatten([s \in 1 .. Len(Doc.nurbss) |-> Doc.nurbss[s].ctrls])

\* the first control point of the sequence fp having the key h
FirstWithKey(fp, h) ==
    fp[CHOOSE t \in 1 .. Len(fp) :
          /\ Key(fp[t]) = h
          /\ \A u \in 1 .. t - 1 : Key(fp[u]) # h]

FmtPoint(x) == <<Fmt17e(x[1]), Fmt17e(x[2]), Fmt17e(x[3]), Fmt17e(x[4])>>

(***************************************************************************)
(* Properties                                                              *)
(***************************************************************************)
\* C1: in a written document, two control points (of any shapes) with equal
\* HashPoint keys are referenced by the same vertex id, and two control
\* points with different keys by different vertex ids.  (The t-th entry of
\* FlatCtrls is the control id at the lattice index of the t-th FlatPoints.)
C1_DedupByKey ==
    wrote =>
       LET key == [t \in 1 .. Len(FlatPoints) |-> Key(FlatPoints[t])]
           id  == FlatCtrls
       IN /\ Len(id) = Len(key)
          /\ \A t, u \in 1 .. Len(key) : (key[t] = key[u]) <=> (id[t] = id[u])

\* two shapes; a point of the second has the key of an unequal point of the
\* first, and the document references both by one id; other keys differ
C1_Witness ==
    /\ wrote /\ Len(nurbss) = 2
    /\ \E a \in Sites, b \in Sites :
          /\ a[1] = 1 /\ b[1] = 2
          /\ PointAt(a) # PointAt(b)
          /\ Key(PointAt(a)) = Key(PointAt(b))
          /\ CtrlAt(a) = CtrlAt(b)
    /\ \E a \in Sites, b \in Sites : CtrlAt(a) # CtrlAt(b)

\* C2: vertex ids are 0..N-1 in emission order, shape ids 0..S-1 in input
\* order, cell ids 0..C-1 with C the sum of the element counts of all shapes
\* (one counter running across the shapes).
C2_DenseIds ==
    wrote =>
       /\ \A i \in 1 .. Len(Doc.verts) : Doc.verts[i].id = i - 1
       /\ Len(Doc.nurbss) = Len(nurbss)
       /\ \A s \in 1 .. Len(Doc.nurbss) : Doc.nurbss[s].id = s - 1
       /\ Len(Doc.cells) = SumSeq([s \in 1 .. Len(nurbss) |-> Len(Elements(nurbss[s]))])
       /\ \A c \in 1 .. Len(Doc.cells) : Doc.cells[c].id = c - 1

\* two shapes, the second one's cells numbered after the first one's
C2_Witness ==
    /\ wrote /\ Len(nurbss) = 2
    /\ Len(Elements(nurbss[1])) = 2 /\ Len(Elements(nurbss[2])) = 2
    /\ Len(Doc.cells) = 4 /\ Doc.cells[3].nrb = 1 /\ Doc.cells[3].id = 2
    /\ Len(Doc.verts) >= 3

\* C3: writing the shapes and reading the document back yields the same
\* number of objects in the same order, each with the same dimension,
\* orders, knot vectors and control-point coordinates at every lattice index.
C3_RoundTrip ==
    (pc = "done" /\ wrote) =>
       /\ result.panic = "none"
       /\ Len(result.nurbss) = Len(nurbss)
       /\ \A s \in 1 .. Len(nurbss) :
             /\ result.nurbss[s].gnd = nurbss[s].gnd
             /\ result.nurbss[s].p = nurbss[s].p
             /\ result.nurbss[s].T = nurbss[s].T
             /\ result.nurbss[s].n = nurbss[s].n
             /\ \A ijk \in Lattice(nurbss[s].n) :
                   result.nurbss[s].Q[ijk] = nurbss[s].Q[ijk]

\* C4: ReadMsh of a well-formed document lacking the shapes list fails with
\* a decode failure naming the file, and returns no objects.
C4_MissingShapesFails ==
    (pc = "done" /\ ~wrote /\ fs.kind = "json" /\ "nurbss" \notin DOMAIN Doc) =>
       /\ result.panic = "_io_err2"
       /\ result.fn = fnk \o ".msh"

\* C5: ReadMsh of a document whose vertex ids are not 0,1,2,... in list
\* order fails with a decode error, and an object it returns never has a
\* control point bound to the coordinates of a vertex entry of another id.
C5_TableIndexedById ==
    (pc = "done" /\ ~wrote /\ fs.kind = "json" /\ "verts" \in DOMAIN Doc
        /\ \A i \in 1 .. Len(Doc.verts) : Len(Doc.verts[i].c) = 4) =>
       /\ (\E i \in 1 .. Len(Doc.verts) : Doc.verts[i].id # i - 1)
              => result.panic = "_io_err2"
       /\ result.panic = "none" =>
             \A s \in 1 .. Len(result.nurbss) :
                \A ijk \in Lattice(result.nurbss[s].n) :
                   LET o == result.nurbss[s]
                       id == Doc.nurbss[s].ctrls[FlatIndex(o.n, ijk[1], ijk[2], ijk[3]) + 1]
                   IN \E i \in 1 .. Len(Doc.verts) :
                         /\ Doc.verts[i].id = id
                         /\ o.Q[ijk] = [j \in 1 .. 4 |-> ParseFloat(Doc.verts[i].c[j])]

\* C6: each emitted vertex carries the point-tag table's value for its key,
\* or 0 when the key is absent or the table is nil; each emitted cell carries
\* the cell-tag table's value for "<shape index>_<element index>", or -1
\* when that key is absent or the table is nil.
C6_Tags ==
    wrote =>
       /\ \A a \in Sites :
             LET h == Key(PointAt(a)) IN
             Doc.verts[CtrlAt(a) + 1].tag =
                IF vtagged.nil \/ h \notin DOMAIN vtagged.m THEN 0 ELSE vtagged.m[h]
       /\ \A i \in 1 .. Len(Doc.verts) : \E a \in Sites : CtrlAt(a) = Doc.verts[i].id
       /\ \A ce \in CellSites :
             LET key == ToString(ce[1] - 1) \o "_" \o ToString(ce[2]) IN
             Doc.cells[CellIndex(ce[1], ce[2])].tag =
                IF ctagged.nil \/ key \notin DOMAIN ctagged.m THEN -1 ELSE ctagged.m[key]

\* tagged and untagged vertices and cells in one document
C6_Witness ==
    /\ wrote /\ ~vtagged.nil /\ ~ctagged.nil
    /\ \E i, j \in 1 .. Len(Doc.verts) : Doc.verts[i].tag = 9 /\ Doc.verts[j].tag = 0
    /\ \E c, d \in 1 .. Len(Doc.cells) : Doc.cells[c].tag = 6 /\ Doc.cells[d].tag = -1

\* C7: two shapes without tag tables yield exactly |P1 \cup P2| vertices,
\* P1 and P2 being the sets of distinct physical points (x,y,z) of the two
\* shapes, and the id of a shared point is in both control-id lists.
C7_UnionCount ==
    (wrote /\ Len(nurbss) = 2 /\ vtagged.nil /\ ctagged.nil) =>
       LET P(s) == {<<nurbss[s].Q[ijk][1], nurbss[s].Q[ijk][2], nurbss[s].Q[ijk][3]>>
                       : ijk \in Lattice(nurbss[s].n)}
       IN /\ Len(Doc.verts) = Cardinality(P(1) \cup P(2))
          /\ \A a \in Sites, b \in Sites :
                (a[1] = 1 /\ b[1] = 2 /\ PointAt(a) = PointAt(b)) =>
                   /\ \E t \in 1 .. Len(Doc.nurbss[1].ctrls) : Doc.nurbss[1].ctrls[t] = CtrlAt(a)
                   /\ \E t \in 1 .. Len(Doc.nurbss[2].ctrls) : Doc.nurbss[2].ctrls[t] = CtrlAt(a)

\* C8: each control id and each cell vertex id is the id of an emitted
\* vertex with the key of the referenced point, and each cell's shape id is
\* the id of the emitted shape whose element it is.
C8_RefsResolve ==
    wrote =>
       /\ \A a \in Sites :
             /\ CtrlAt(a) \in VertIds
             /\ \A i \in 1 .. Len(Doc.verts) :
                   Doc.verts[i].id = CtrlAt(a) => VertKey(Doc.verts[i]) = Key(PointAt(a))
       /\ \A ce \in CellSites :
             LET cell == Doc.cells[CellIndex(ce[1], ce[2])]
                 o == nurbss[ce[1]]
                 nodes == Enodes(o)[ce[2] + 1]
             IN /\ cell.nrb = Doc.nurbss[ce[1]].id
                /\ Len(cell.verts) = Len(nodes)
                /\ \A t \in 1 .. Len(nodes) :
                      /\ cell.verts[t] \in VertIds
                      /\ \A i \in 1 .. Len(Doc.verts) :
                            Doc.verts[i].id = cell.verts[t]
                               => VertKey(Doc.verts[i]) = Key(GetQl(o, nodes[t]))

\* a cell of the second shape that references a vertex other than vertex 0
C8_Witness ==
    /\ wrote /\ Len(nurbss) = 2
    /\ \E c \in 1 .. Len(Doc.cells) :
          /\ Doc.cells[c].nrb = 1
          /\ \E t \in 1 .. Len(Doc.cells[c].verts) : Doc.cells[c].verts[t] > 0

\* C9: a shape's control-id list has n0*n1*n2 entries, the entry at position
\* i + n0*(j + n1*k) being the vertex id of the control point (i,j,k); the
\* ids were assigned in that same order (a new id first appears after all
\* smaller ids).
C9_LatticeOrder ==
    wrote =>
       /\ \A s \in 1 .. Len(nurbss) :
             Len(Doc.nurbss[s].ctrls) = nurbss[s].n[1] * nurbss[s].n[2] * nurbss[s].n[3]
       /\ \A a \in Sites :
             \E i \in 1 .. Len(Doc.verts) :
                /\ Doc.verts[i].id = CtrlAt(a)
                /\ VertKey(Doc.verts[i]) = Key(PointAt(a))
       /\ LET fc == FlatCtrls
          IN \A t \in 1 .. Len(fc) : fc[t] = 0 \/ \E u \in 1 .. t - 1 : fc[u] = fc[t] - 1

\* a volume with three different extents whose points have several keys
C9_Witness ==
    /\ wrote
    /\ \E s \in 1 .. Len(nurbss) :
          /\ nurbss[s].n = <<2, 3, 2>>
          /\ CtrlAt(<<s, <<1, 0, 0>>>>) # CtrlAt(<<s, <<0, 1, 0>>>>)
          /\ CtrlAt(<<s, <<0, 1, 0>>>>) # CtrlAt(<<s, <<0, 0, 1>>>>)
          /\ CtrlAt(<<s, <<1, 0, 0>>>>) # CtrlAt(<<s, <<0, 0, 1>>>>)

\* C10: the document has one vertex per key, whose coordinates (x,y,z,w) are
\* those of the first control point in traversal order having that key; a
\* later control point of the same key is referenced by that vertex id, its
\* own coordinates and weight not being written.
C10_FirstOccurrenceWins ==
    wrote =>
       LET fp == FlatPoints
           fc == FlatCtrls
       IN /\ Len(Doc.verts) = Cardinality({Key(fp[t]) : t \in 1 .. Len(fp)})
          /\ Len(fc) = Len(fp)
          /\ \A t \in 1 .. Len(fp) :
                /\ fc[t] \in 0 .. Len(Doc.verts) - 1
                /\ Doc.verts[fc[t] + 1].c = FmtPoint(FirstWithKey(fp, Key(fp[t])))

\* a later point differing in weight only, and a later point differing in
\* position, neither of which is written
C10_Witness ==
    /\ wrote
    /\ \E t \in 1 .. Len(FlatPoints) :
          LET x == FlatPoints[t]  f == FirstWithKey(FlatPoints, Key(x))
          IN /\ x[4] # f[4] /\ <<x[1], x[2], x[3]>> = <<f[1], f[2], f[3]>>
             /\ \A i \in 1 .. Len(Doc.verts) : Doc.verts[i].c # FmtPoint(x)
    /\ \E t \in 1 .. Len(FlatPoints) :
          LET x == FlatPoints[t]  f == FirstWithKey(FlatPoints, Key(x))
          IN /\ <<x[1], x[2], x[3]>> # <<f[1], f[2], f[3]>>
             /\ \A i \in 1 .. Len(Doc.verts) : Doc.verts[i].c # FmtPoint(x)

====
